---- MODULE Spec2Model ----
(***************************************************************************)
(* A model of the GitHub collection pipeline:                              *)
(*   GitHubAPI._make_request      (src/src/api/github_api.py)              *)
(*   GitHubAPI.get_commits / get_issues / get_releases                     *)
(*   GitHubAPI.process_repo_data                                           *)
(*   collect_github_data          (src/src/main.py)                        *)
(*   the "Collect GitHub Data" handler (src/src/app.py)                    *)
(*   the aggregators of DataProcessor (src/src/utils/data_processor.py)    *)
(*   DataProcessor.save_repo_data / load_data_file                         *)
(* The program is single-threaded: every action is one step of the one     *)
(* thread of control, or one step of the upstream server.                  *)
(***************************************************************************)
EXTENDS Integers, Sequences, FiniteSets, TLC

(* ----------------------------- program constants ----------------------- *)
PageSize == 30
LowWaterMark == 10
Cooldown == 60
Grace == 10
DefaultRemaining == 5000
DefaultReset == 0
WindowDays == 7
ShownReleases == 3
ShownItems == 5

(* ----------------------------- bounds of the model --------------------- *)
\* the upstream lists hold at most MaxFullPages full pages plus a tail page
MaxFullPages == 1
\* repositories in one batch
MaxRepos == 2
\* rate-limit 403 answers the server gives to one call of _make_request
MaxRateLimited == 2
\* disturbances per batch: answers that are neither 200 nor a rate-limit 403,
\* failed saves, and upstream pushes (counted together)
MaxFaults == 1
\* upstream pushes while a list is being paginated, per batch (also counted
\* against MaxFaults)
MaxPushes == 1
\* the reading of time.time() when a rate-limit answer is handled
Clock == 100
\* every PrEvery-th item of the issues endpoint is a pull request
PrEvery == 2
\* commits of a snapshot given to the aggregators
MaxCommits == 6
\* commits of such a snapshot when their dates vary
MaxDated == 3
\* runs of the normalisation over one raw payload
MaxRuns == 2
\* the identifier the payloads under study carry
NodeId == 7
\* the newest RecentReleases releases were published inside the window
RecentReleases == 1
\* calls of save_repo_data on one data directory
MaxSaves == 2
\* seconds that pass while the data directory is in use
MaxTicks == 1

Min(a, b) == IF a < b THEN a ELSE b
Max(a, b) == IF a > b THEN a ELSE b

(* ----------------------------- the upstream server --------------------- *)
\* how many releases the window holds: a few, or all of them
WindowChoices == {RecentReleases, MaxFullPages * PageSize + 1}
\* sizes of an upstream list: n full pages and a tail of 0 or 1 items
SrcSizes == { n * PageSize + r : n \in 0..MaxFullPages, r \in {0, 1} }
Statuses == {200, 204, 304, 403, 404, 500}
\* X-RateLimit-Remaining of a response; NoHeader: the header is absent
NoHeader == -1
RemainingHeaders == {NoHeader, 9, 10}
\* X-RateLimit-Reset of a response, an epoch; NoHeader: the header is absent
ResetHeaders == {NoHeader, Clock - 5, Clock + 5}

VARIABLES
    mode,                  \* "cli": collect_github_data, "app": the dashboard handler
    repos,                 \* the repository list of the batch
    upstream,              \* how many items each list endpoint of the server holds
    extra,                 \* items pushed in front of the list being paginated
    in_window,             \* how many of the newest releases are inside the window
    faults, pushes,        \* what the environment has used of its bounds
    rate_limit_remaining,  \* GitHubAPI.rate_limit_remaining
    mr,                    \* position in _make_request
    mr_url, mr_params,     \* its arguments
    mr_log,                \* what the running activation has done, in order, after
                           \* the rate-limit answer and sleep that led to it
    mr_ret,                \* its return value
    mr_retries,            \* depth of the recursion of the current call
    pc,                    \* position in the batch loop
    idx,                   \* index of the repository being collected
    all_repo_data,         \* the list the loop appends to
    files,                 \* snapshot files on disk
    handed,                \* the list handed on to reporting
    phase,                 \* position in process_repo_data
    fn,                    \* position in the running sub-fetch
    page, acc,             \* locals of the running fetch loop
    repo_info, commits, issues, pull_requests, releases,
    raw_issues,            \* what get_issues returned to process_repo_data
    repo_data,             \* what process_repo_data returned to the batch loop
    fetch_pages,           \* pages the running (or last) fetch loop asked for
    fetch_clean,           \* the source stayed as it was and answered with pages
    fetch_retried,         \* a request of the running fetch got a rate-limit answer
    started,               \* the sub-fetches process_repo_data has entered, in order
    requested,             \* the endpoints it has sent a request to
    attempted, sub_failed, failed, collected,  \* per-repository history
    raw_kind, raw,         \* a raw payload given to the normalisation, and its kind
    normalized,            \* what each run of the normalisation made of it
    wall_clock,            \* datetime.now() of the running normalisation
    snapshot,              \* a snapshot given to the aggregators
    view,                  \* what the last aggregator call returned
    disk,                  \* the files of the data directory
    saves,                 \* the calls of save_repo_data so far
    loaded                 \* what the last call of load_data_file gave

envVars == <<upstream, extra, in_window, faults, pushes>>
mrVars == <<rate_limit_remaining, mr, mr_url, mr_params, mr_log, mr_ret, mr_retries>>
batchVars == <<mode, repos, pc, idx, all_repo_data, files, handed>>
repoVars == <<phase, fn, page, acc, repo_info, commits, issues, pull_requests,
              releases, raw_issues, repo_data>>
histVars == <<fetch_pages, fetch_clean, fetch_retried, started, requested,
              attempted, sub_failed, failed, collected>>
normVars == <<raw_kind, raw, normalized, wall_clock>>
aggVars == <<snapshot, view>>
storeVars == <<disk, saves, loaded>>
pureVars == <<normVars, aggVars, storeVars>>
vars == <<envVars, mrVars, batchVars, repoVars, histVars, pureVars>>

(* ----------------------------- JSON values ----------------------------- *)
None == [none |-> TRUE]
Json(v) == [none |-> FALSE, json |-> v]
\* Python truthiness of a parsed body: None, [] and {} are falsy
Falsy(data) == data.none \/ data.json = <<>>

\* the list an endpoint holds: n original items, x newer ones pushed in front
SrcList(n, x) == [i \in 1..(n + x) |-> IF i <= x THEN n + x - i + 1 ELSE i - x]
IsPR(i) == i % PrEvery = 0

\* A raw payload is a record of its keys; each key is absent from the dict,
\* there with null, or there with a value (a string, a number, a dict, a list)
Absent == [is |-> "absent"]
Null == [is |-> "null"]
Val(v) == [is |-> "val", v |-> v]
\* a text is the sequence of its lines: what split('\n') makes of it
Text(lines) == Val(lines)
Account(login) == Val([login |-> login, id |-> Val(NodeId)])
MetaAuthor(name, date) == Val([name |-> name, date |-> date])
CommitInfo(author, message) == Val([author |-> author, message |-> message])
Label(name) == Val([name |-> name])

\* the commit and issue timestamps of the model, as the API writes them
Stamps == <<"2024-01-01T10:00:00Z", "2024-01-01T23:00:00Z", "2024-01-02T01:00:00Z">>

\* a parsed timestamp; NaT: not a time
NaT == [nat |-> TRUE, day |-> 0, hour |-> 0]
At(day, hour) == [nat |-> FALSE, day |-> day, hour |-> hour]
\* a variant of ToDatetime that converts to a local time two hours ahead of UTC
ToDatetime_Local(s) ==
    CASE s = Stamps[1] -> At(1, 12)
      [] s = Stamps[2] -> At(2, 1)
      [] s = Stamps[3] -> At(2, 3)
      [] OTHER -> NaT

\* pd.to_datetime / datetime.strptime of a timestamp string, the day counted
\* within January 2024; '' parses to nothing
ToDatetime(s) ==
    CASE s = Stamps[1] -> At(1, 10)
      [] s = Stamps[2] -> At(1, 23)
      [] s = Stamps[3] -> At(2, 1)
      [] OTHER -> NaT
After(a, b) == a.day > b.day \/ (a.day = b.day /\ a.hour > b.hour)
\* datetime.now() when get_releases filters a page
Today == At(1 + WindowDays, 10)

\* the items the upstream lists hold, item i by its own account; a key that is
\* not in the record is not in the payload
RawCommit(i) == [sha |-> Val(i), author |-> Account(Val(i))]
RawIssue(i) == [number |-> Val(i), user |-> Account(Val(i)), pull_request |-> IsPR(i)]
\* datetime.now() - timedelta(days=days)
SinceDate(now) == At(now.day - WindowDays, now.hour)
\* releases come newest first; those outside the window were published at the
\* cutoff itself
RawRelease(i) ==
    [tag_name |-> Val(i),
     published_at |-> Val(IF i <= in_window THEN Stamps[2] ELSE Stamps[1])]
RawItem(endpoint, i) ==
    CASE endpoint = "commits"  -> RawCommit(i)
      [] endpoint = "issues"   -> RawIssue(i)
      [] endpoint = "releases" -> RawRelease(i)
RawList(endpoint) ==
    [i \in 1..(upstream + extra) |-> RawItem(endpoint, SrcList(upstream, extra)[i])]
\* page p of a list, as the server cuts it
PageOf(list, p) ==
    SubSeq(list, PageSize * (p - 1) + 1, Min(PageSize * p, Len(list)))
\* the body the server sends with a 200 for this url and these params
Body(url, params) ==
    IF url[2] = "info" THEN [full_name |-> url[1]]
    ELSE PageOf(RawList(url[2]), params.page)

(* ----------------------------- _make_request --------------------------- *)
\* an entry of mr_log: what happened, its number (the budget at entry, the
\* seconds slept, the status received), a header (the X-RateLimit-Remaining of
\* a response, the X-RateLimit-Reset a rate-limit sleep was computed from), and
\* the arguments of the activation it happened in
Ev(e, n, h) == [ev |-> e, n |-> n, hdr |-> h, url |-> mr_url, params |-> mr_params]

\* a variant of ThrottleSleeps that also sleeps at the low-water mark itself
ThrottleSleeps_AtMark(remaining) ==
    IF remaining <= LowWaterMark THEN <<Cooldown>> ELSE <<>>

\* the sleeps before the request
ThrottleSleeps(remaining) ==
    IF remaining < LowWaterMark THEN <<Cooldown>> ELSE <<>>

\* a variant of RemainingOf that reads a missing header as an empty budget
RemainingOf_MissingIsZero(hdr) == IF hdr = NoHeader THEN 0 ELSE hdr

\* int(response.headers.get('X-RateLimit-Remaining', 5000))
RemainingOf(hdr) == IF hdr = NoHeader THEN DefaultRemaining ELSE hdr

\* int(response.headers.get('X-RateLimit-Reset', 0))
ResetOf(hdr) == IF hdr = NoHeader THEN DefaultReset ELSE hdr

\* a variant of SleepTime that takes the difference as it is
SleepTime_NoFloor(reset_time, t) == (reset_time - t) + Grace

\* max(reset_time - time.time(), 0) + 10
SleepTime(reset_time, t) == Max(reset_time - t, 0) + Grace

\* requests.Response.raise_for_status raises for 4xx and 5xx only
RaisesForStatus(status) == 400 <= status /\ status < 600

\* the branch _make_request takes on a response
Dispatch(status, rate_limit_msg) ==
    IF status = 200 THEN "return_body"
    ELSE IF status = 403 /\ rate_limit_msg THEN "retry"
    ELSE IF RaisesForStatus(status) THEN "raise"
    ELSE "return_none"

\* a variant of RetryArgs that moves on to the next page
RetryArgs_NextPage(url, params) == [url |-> url, params |-> [page |-> params.page + 1]]

\* a variant of RetryArgs that starts over at the first page
RetryArgs_FirstPage(url, params) == [url |-> url, params |-> [page |-> Min(params.page, 1)]]

\* the arguments of the recursive call
RetryArgs(url, params) == [url |-> url, params |-> params]

\* _make_request is not running
Idle ==
    /\ mr' = "idle"
    /\ mr_url' = <<0, "none">>
    /\ mr_params' = [page |-> 0]
    /\ mr_log' = <<>>
    /\ mr_ret' = None
    /\ mr_retries' = 0
    /\ UNCHANGED rate_limit_remaining

\* a caller calls _make_request(url, params)
Call(url, params) ==
    /\ mr = "idle"
    /\ mr' = "enter"
    /\ mr_url' = url
    /\ mr_params' = params
    /\ mr_log' = <<>>
    /\ mr_ret' = None
    /\ mr_retries' = 0
    /\ UNCHANGED rate_limit_remaining

MakeRequest_Throttle ==
    /\ mr = "enter"
    /\ LET sleeps == ThrottleSleeps(rate_limit_remaining) IN
        /\ mr_log' = mr_log \o <<Ev("enter", rate_limit_remaining, NoHeader)>>
                            \o [i \in 1..Len(sleeps) |-> Ev("sleep", sleeps[i], NoHeader)]
    /\ mr' = "send"
    /\ UNCHANGED <<rate_limit_remaining, mr_url, mr_params, mr_ret, mr_retries>>
    /\ UNCHANGED envVars
    /\ UNCHANGED <<batchVars, repoVars, histVars>>
    /\ UNCHANGED pureVars

MakeRequest_Get ==
    /\ mr = "send"
    /\ mr_log' = Append(mr_log, Ev("get", 0, NoHeader))
    /\ mr' = "await"
    /\ requested' = requested \cup {mr_url[2]}
    /\ UNCHANGED <<rate_limit_remaining, mr_url, mr_params, mr_ret, mr_retries>>
    /\ UNCHANGED <<envVars, batchVars, repoVars>>
    /\ UNCHANGED <<fetch_pages, fetch_clean, fetch_retried, started, attempted,
                   sub_failed, failed, collected>>
    /\ UNCHANGED pureVars

\* the server answers, and _make_request handles the answer
MakeRequest_Response ==
    /\ mr = "await"
    /\ \E status \in Statuses, msg \in BOOLEAN, rem \in RemainingHeaders,
          reset \in ResetHeaders :
        LET branch == Dispatch(status, msg)
            sleep == SleepTime(ResetOf(reset), Clock)
            again == RetryArgs(mr_url, mr_params)
        IN
        /\ msg => status = 403
        /\ reset # NoHeader => status = 403 /\ msg
        /\ branch = "retry" => mr_retries < MaxRateLimited
        /\ branch \in {"raise", "return_none"} => faults + pushes < MaxFaults
        /\ rate_limit_remaining' = RemainingOf(rem)
        /\ faults' = IF branch \in {"raise", "return_none"} THEN faults + 1 ELSE faults
        /\ mr_log' = (IF branch = "retry" THEN <<>> ELSE mr_log)
                        \o <<Ev(IF status = 403 /\ msg THEN "resp_rl" ELSE "resp",
                                 status, rem)>>
                        \o (IF branch = "retry" THEN <<Ev("sleep_rl", sleep, reset)>>
                            ELSE <<>>)
        /\ mr' = CASE branch = "retry" -> "enter"
                   [] branch = "raise" -> "raised"
                   [] OTHER -> "ret"
        /\ mr_ret' = IF branch = "return_body" THEN Json(Body(mr_url, mr_params))
                     ELSE None
        /\ mr_url' = IF branch = "retry" THEN again.url ELSE mr_url
        /\ mr_params' = IF branch = "retry" THEN again.params ELSE mr_params
        /\ mr_retries' = IF branch = "retry" THEN mr_retries + 1 ELSE mr_retries
        /\ fetch_clean' = (fetch_clean /\ branch \in {"return_body", "retry"})
        /\ fetch_retried' = (fetch_retried \/ branch = "retry")
    /\ UNCHANGED <<upstream, extra, in_window, pushes>>
    /\ UNCHANGED <<batchVars, repoVars>>
    /\ UNCHANGED <<fetch_pages, started, requested, attempted, sub_failed, failed,
                   collected>>
    /\ UNCHANGED pureVars

(* ----------------------------- the fetch loops ------------------------- *)
NoParams == [page |-> 0]
Repo == repos[idx]

\* one pass of the body of get_commits' loop, after _make_request returned data
CommitsLoopStep(items, pg, data) ==
    IF Falsy(data) THEN [acc |-> items, page |-> pg, brk |-> TRUE]
    ELSE [acc |-> items \o data.json, page |-> pg + 1,
          brk |-> Len(data.json) < PageSize]

\* a variant of IssuesLoopStep that takes a full page for the last one
IssuesLoopStep_StopsOnFullPage(items, pg, data) ==
    IF Falsy(data) THEN [acc |-> items, page |-> pg, brk |-> TRUE]
    ELSE [acc |-> items \o data.json, page |-> pg + 1,
          brk |-> Len(data.json) <= PageSize]

\* one pass of the body of get_issues' loop
IssuesLoopStep(items, pg, data) ==
    IF Falsy(data) THEN [acc |-> items, page |-> pg, brk |-> TRUE]
    ELSE [acc |-> items \o data.json, page |-> pg + 1,
          brk |-> Len(data.json) < PageSize]

\* datetime.strptime(release['published_at'], ...) > since_date
IsRecent(release) == After(ToDatetime(release.published_at.v), SinceDate(Today))

\* a variant of ReleasesLoopStep that goes on after a page with older releases
ReleasesLoopStep_NoEarlyStop(items, pg, data) ==
    IF Falsy(data) THEN [acc |-> items, page |-> pg, brk |-> TRUE]
    ELSE LET recent_releases == SelectSeq(data.json, IsRecent) IN
         [acc |-> items \o recent_releases, page |-> pg + 1,
          brk |-> Len(data.json) < PageSize]

\* one pass of the body of get_releases' loop
ReleasesLoopStep(items, pg, data) ==
    IF Falsy(data) THEN [acc |-> items, page |-> pg, brk |-> TRUE]
    ELSE LET recent_releases == SelectSeq(data.json, IsRecent) IN
         [acc |-> items \o recent_releases, page |-> pg + 1,
          brk |-> Len(data.json) < PageSize
                  \/ Len(recent_releases) < Len(data.json)]

\* entering a fetch function: its locals and the history of the fetch
StartFetch(ph) ==
    /\ phase' = ph
    /\ fn' = "loop"
    /\ page' = 1
    /\ acc' = <<>>
    /\ extra' = 0
    /\ in_window' \in (IF ph = "releases" THEN WindowChoices ELSE {0})
    /\ fetch_pages' = <<>>
    /\ fetch_clean' = TRUE
    /\ fetch_retried' = FALSE
    /\ started' = Append(started, ph)

\* params["page"] = page; data = self._make_request(url, params)
FetchRequest(ph) ==
    /\ pc = "in_repo"
    /\ phase = ph
    /\ fn = "loop"
    /\ Call(<<Repo, ph>>, [page |-> page])
    /\ fn' = "called"
    /\ fetch_pages' = Append(fetch_pages, page)
    /\ UNCHANGED <<envVars, batchVars>>
    /\ UNCHANGED <<phase, page, acc, repo_info, commits, issues, pull_requests,
                   releases, raw_issues, repo_data>>
    /\ UNCHANGED <<fetch_clean, fetch_retried, started, requested, attempted,
                   sub_failed, failed, collected>>
    /\ UNCHANGED pureVars

\* the rest of the loop body, r being what one pass computes
FetchHandle(ph, r) ==
    /\ pc = "in_repo"
    /\ phase = ph
    /\ fn = "called"
    /\ mr = "ret"
    /\ acc' = r.acc
    /\ page' = r.page
    /\ fn' = IF r.brk THEN "returned" ELSE "loop"
    /\ Idle
    /\ UNCHANGED <<envVars, batchVars, histVars>>
    /\ UNCHANGED <<phase, repo_info, commits, issues, pull_requests, releases,
                   raw_issues, repo_data>>
    /\ UNCHANGED pureVars

GetCommits_Request == FetchRequest("commits")
GetCommits_Handle == FetchHandle("commits", CommitsLoopStep(acc, page, mr_ret))
GetIssues_Request == FetchRequest("issues")
GetIssues_Handle == FetchHandle("issues", IssuesLoopStep(acc, page, mr_ret))
GetReleases_Request == FetchRequest("releases")
GetReleases_Handle == FetchHandle("releases", ReleasesLoopStep(acc, page, mr_ret))

\* the upstream list grows by one item between two page requests
UpstreamPush ==
    /\ pc = "in_repo"
    /\ phase \in {"commits", "issues"}
    /\ fn = "loop"
    /\ page > 1
    /\ pushes < MaxPushes
    /\ faults + pushes < MaxFaults
    /\ pushes' = pushes + 1
    /\ extra' = extra + 1
    /\ fetch_clean' = FALSE
    /\ UNCHANGED fetch_retried
    /\ UNCHANGED <<upstream, in_window, faults>>
    /\ UNCHANGED <<mrVars, batchVars, repoVars>>
    /\ UNCHANGED <<fetch_pages, started, requested, attempted, sub_failed, failed,
                   collected>>
    /\ UNCHANGED pureVars

(* ----------------------------- process_repo_data ----------------------- *)
HasMarker(item) == item.pull_request
NoMarker(item) == ~item.pull_request
\* pull_requests = [pr for pr in issues if 'pull_request' in pr]
PullRequestsOf(items) == SelectSeq(items, HasMarker)
\* a variant of IssuesOf that leaves the pull requests among the issues
IssuesOf_KeepsAll(items) == items

\* issues = [issue for issue in issues if 'pull_request' not in issue]
IssuesOf(items) == SelectSeq(items, NoMarker)

\* the outcome of an expression that raised (AttributeError, TypeError)
Raised == [is |-> "raise"]
\* {} where a dict of this shape is expected
EmptyAccount == Val([login |-> Absent, id |-> Absent])
EmptyMetaAuthor == Val([name |-> Absent, date |-> Absent])
EmptyCommitInfo == Val([author |-> Absent, message |-> Absent])
\* d.get(k, default) on a dict d
Get(d, k, default) ==
    IF k \in DOMAIN d THEN (IF d[k].is = "absent" THEN default ELSE d[k]) ELSE default
\* x.get(k, default) on what an expression gave: None has no get
GetOf(x, k, default) == IF x.is # "val" THEN Raised ELSE Get(x.v, k, default)
\* Python truthiness of None or a dict
Truthy(x) == x.is = "val" /\ \E k \in DOMAIN x.v : x.v[k].is # "absent"
\* x.split('\n')[0]: None has no split
FirstLine(x) == IF x.is # "val" THEN Raised ELSE Val(x.v[1])
\* [label.get('name', '') for label in x]: None is not iterable
LabelNames(x) ==
    IF x.is # "val" THEN Raised
    ELSE Val([i \in 1..Len(x.v) |-> GetOf(x.v[i], "name", Val(""))])
\* building the record raised
Raises(rec) == \E k \in DOMAIN rec : rec[k].is = "raise"

\* a variant of NormalizeCommit that dates a commit without a date by the clock
NormalizeCommit_DatedByClock(commit) ==
    LET author == Get(commit, "author", EmptyAccount)
        commit_info == Get(commit, "commit", EmptyCommitInfo)
    IN  [sha |-> Get(commit, "sha", Val("")),
         author |-> IF Truthy(author)
                    THEN GetOf(author, "login", Val("Unknown"))
                    ELSE GetOf(GetOf(commit_info, "author", EmptyMetaAuthor),
                               "name", Val("Unknown")),
         date |-> GetOf(GetOf(commit_info, "author", EmptyMetaAuthor), "date",
                        Val(wall_clock)),
         message |-> FirstLine(GetOf(commit_info, "message", Text(<<"">>))),
         url |-> Get(commit, "html_url", Val(""))]

NormalizeCommit(commit) ==
    LET author == Get(commit, "author", EmptyAccount)
        commit_info == Get(commit, "commit", EmptyCommitInfo)
    IN  [sha |-> Get(commit, "sha", Val("")),
         author |-> IF Truthy(author)
                    THEN GetOf(author, "login", Val("Unknown"))
                    ELSE GetOf(GetOf(commit_info, "author", EmptyMetaAuthor),
                               "name", Val("Unknown")),
         date |-> GetOf(GetOf(commit_info, "author", EmptyMetaAuthor), "date", Val("")),
         message |-> FirstLine(GetOf(commit_info, "message", Text(<<"">>))),
         url |-> Get(commit, "html_url", Val(""))]
NormalizeIssue(issue) ==
    [number |-> Get(issue, "number", Val("")),
     title |-> Get(issue, "title", Val("")),
     state |-> Get(issue, "state", Val("")),
     created_at |-> Get(issue, "created_at", Val("")),
     updated_at |-> Get(issue, "updated_at", Val("")),
     author |-> GetOf(Get(issue, "user", EmptyAccount), "login", Val("Unknown")),
     labels |-> LabelNames(Get(issue, "labels", Val(<<>>))),
     url |-> Get(issue, "html_url", Val(""))]
NormalizePullRequest(pr) ==
    [number |-> Get(pr, "number", Val("")),
     title |-> Get(pr, "title", Val("")),
     state |-> Get(pr, "state", Val("")),
     created_at |-> Get(pr, "created_at", Val("")),
     updated_at |-> Get(pr, "updated_at", Val("")),
     author |-> GetOf(Get(pr, "user", EmptyAccount), "login", Val("Unknown")),
     labels |-> LabelNames(Get(pr, "labels", Val(<<>>))),
     url |-> Get(pr, "html_url", Val(""))]
NormalizeRelease(release) ==
    [tag_name |-> Get(release, "tag_name", Val("")),
     name |-> Get(release, "name", Val("")),
     published_at |-> Get(release, "published_at", Val("")),
     author |-> GetOf(Get(release, "author", EmptyAccount), "login", Val("Unknown")),
     url |-> Get(release, "html_url", Val(""))]
NormalizeCommits(s) == [i \in 1..Len(s) |-> NormalizeCommit(s[i])]
NormalizeIssues(s) == [i \in 1..Len(s) |-> NormalizeIssue(s[i])]
NormalizePullRequests(s) == [i \in 1..Len(s) |-> NormalizePullRequest(s[i])]
NormalizeReleases(s) == [i \in 1..Len(s) |-> NormalizeRelease(s[i])]

\* one of the four normalisation loops raises
NormalizationRaises(cs, is, prs, rs) ==
    \/ \E i \in 1..Len(cs) : Raises(NormalizeCommit(cs[i]))
    \/ \E i \in 1..Len(is) : Raises(NormalizeIssue(is[i]))
    \/ \E i \in 1..Len(prs) : Raises(NormalizePullRequest(prs[i]))
    \/ \E i \in 1..Len(rs) : Raises(NormalizeRelease(rs[i]))

\* the dictionary process_repo_data returns
Snapshot(repo, info, cs, is, prs, rs) ==
    [repo_name |-> repo,
     repo_info |-> [full_name |-> info.json.full_name],
     commits |-> NormalizeCommits(cs),
     issues |-> NormalizeIssues(is),
     pull_requests |-> NormalizePullRequests(prs),
     releases |-> NormalizeReleases(rs),
     time_period |-> WindowDays,
     collection_date |-> wall_clock]

\* the locals of process_repo_data before it has assigned them
FreshLocals(ph, f) ==
    /\ phase' = ph
    /\ fn' = f
    /\ page' = 0
    /\ acc' = <<>>
    /\ repo_info' = None
    /\ commits' = <<>>
    /\ issues' = <<>>
    /\ pull_requests' = <<>>
    /\ releases' = <<>>
    /\ raw_issues' = <<>>
    /\ repo_data' = None
    /\ extra' = 0
    /\ in_window' = 0
    /\ fetch_pages' = <<>>
    /\ fetch_clean' = TRUE
    /\ fetch_retried' = FALSE
    /\ started' = (IF ph = "info" THEN <<"info">> ELSE <<>>)
    /\ requested' = {}

\* repo_info = self.get_repository_info(repo); then get_commits is entered
ProcessRepo_GotInfo ==
    /\ pc = "in_repo"
    /\ phase = "info"
    /\ mr = "ret"
    /\ repo_info' = mr_ret
    /\ Idle
    /\ StartFetch("commits")
    /\ UNCHANGED <<upstream, faults, pushes>>
    /\ UNCHANGED <<batchVars, commits, issues, pull_requests, releases, raw_issues,
                   repo_data>>
    /\ UNCHANGED <<requested, attempted, sub_failed, failed, collected>>
    /\ UNCHANGED pureVars

\* commits = self.get_commits(repo, days); then get_issues is entered
ProcessRepo_GotCommits ==
    /\ pc = "in_repo"
    /\ phase = "commits"
    /\ fn = "returned"
    /\ commits' = acc
    /\ StartFetch("issues")
    /\ UNCHANGED <<upstream, faults, pushes>>
    /\ UNCHANGED <<mrVars, batchVars, repo_info, issues, pull_requests, releases,
                   raw_issues, repo_data>>
    /\ UNCHANGED <<requested, attempted, sub_failed, failed, collected>>
    /\ UNCHANGED pureVars

\* a variant of ProcessRepo_GotIssues that paginates the issues endpoint a second
\* time, for the pull requests
ProcessRepo_GotIssues_Twice ==
    /\ pc = "in_repo"
    /\ phase = "issues"
    /\ fn = "returned"
    /\ raw_issues' = acc
    /\ pull_requests' = PullRequestsOf(acc)
    /\ issues' = IssuesOf(acc)
    /\ StartFetch(IF Len(started) < 4 THEN "issues" ELSE "releases")
    /\ UNCHANGED <<upstream, faults, pushes>>
    /\ UNCHANGED <<mrVars, batchVars, repo_info, commits, releases, repo_data>>
    /\ UNCHANGED <<requested, attempted, sub_failed, failed, collected>>
    /\ UNCHANGED pureVars

\* issues = self.get_issues(repo, days), the split, then get_releases is entered
ProcessRepo_GotIssues ==
    /\ pc = "in_repo"
    /\ phase = "issues"
    /\ fn = "returned"
    /\ raw_issues' = acc
    /\ pull_requests' = PullRequestsOf(acc)
    /\ issues' = IssuesOf(acc)
    /\ StartFetch("releases")
    /\ UNCHANGED <<upstream, faults, pushes>>
    /\ UNCHANGED <<mrVars, batchVars, repo_info, commits, releases, repo_data>>
    /\ UNCHANGED <<requested, attempted, sub_failed, failed, collected>>
    /\ UNCHANGED pureVars

\* releases = self.get_releases(repo, days), the normalisation and the return;
\* repo_info.get raises when get_repository_info returned None
ProcessRepo_Build ==
    /\ pc = "in_repo"
    /\ phase = "releases"
    /\ fn = "returned"
    /\ releases' = acc
    /\ phase' = "build"
    /\ fn' = "none"
    /\ IF repo_info.none \/ NormalizationRaises(commits, issues, pull_requests, acc)
       THEN /\ pc' = "except"
            /\ repo_data' = None
       ELSE /\ pc' = "save"
            /\ repo_data' = Json(Snapshot(Repo, repo_info, commits, issues,
                                          pull_requests, acc))
    /\ UNCHANGED <<envVars, mrVars, histVars>>
    /\ UNCHANGED <<mode, repos, idx, all_repo_data, files, handed>>
    /\ UNCHANGED <<page, acc, repo_info, commits, issues, pull_requests, raw_issues>>
    /\ UNCHANGED pureVars

\* a variant of ProcessRepo_Except that logs the error and returns what has
\* been fetched so far
ProcessRepo_Except_Swallows ==
    /\ pc = "in_repo"
    /\ mr = "raised"
    /\ Idle
    /\ pc' = "save"
    /\ repo_data' = Json([repo_name |-> Repo,
                          repo_info |-> [full_name |-> Repo],
                          commits |-> NormalizeCommits(commits),
                          issues |-> NormalizeIssues(issues),
                          pull_requests |-> NormalizePullRequests(pull_requests),
                          releases |-> NormalizeReleases(releases)])
    /\ sub_failed' = sub_failed \cup {Repo}
    /\ UNCHANGED <<envVars, mode, repos, idx, all_repo_data, files, handed>>
    /\ UNCHANGED <<phase, fn, page, acc, repo_info, commits, issues, pull_requests,
                   releases, raw_issues>>
    /\ UNCHANGED <<fetch_pages, fetch_clean, fetch_retried, started, requested,
                   attempted, failed, collected>>
    /\ UNCHANGED pureVars

\* except Exception as e: logging.error(...); raise
ProcessRepo_Except ==
    /\ pc = "in_repo"
    /\ mr = "raised"
    /\ Idle
    /\ pc' = "except"
    /\ repo_data' = None
    /\ sub_failed' = sub_failed \cup {Repo}
    /\ UNCHANGED <<envVars, mode, repos, idx, all_repo_data, files, handed>>
    /\ UNCHANGED <<phase, fn, page, acc, repo_info, commits, issues, pull_requests,
                   releases, raw_issues>>
    /\ UNCHANGED <<fetch_pages, fetch_clean, fetch_retried, started, requested,
                   attempted, failed, collected>>
    /\ UNCHANGED pureVars

(* ----------------------------- the batch loops ------------------------- *)
\* the body of the for loop up to the first request: process_repo_data is
\* entered and calls get_repository_info
BeginRepo ==
    /\ pc = "loop"
    /\ idx <= Len(repos)
    /\ pc' = "in_repo"
    /\ Call(<<Repo, "info">>, NoParams)
    /\ FreshLocals("info", "called")
    /\ attempted' = attempted \cup {Repo}
    /\ UNCHANGED <<upstream, faults, pushes>>
    /\ UNCHANGED <<mode, repos, idx, all_repo_data, files, handed>>
    /\ UNCHANGED <<sub_failed, failed, collected>>
    /\ UNCHANGED pureVars

FileOf(repo, complete) == [repo_name |-> repo, complete |-> complete]

\* a variant of SaveAndAppend that appends the snapshot to the list before it
\* saves it
SaveAndAppend_AppendsFirst ==
    /\ pc = "save"
    /\ \E outcome \in {"saved", "open_fails", "dump_fails"} :
        /\ outcome # "saved" => faults + pushes < MaxFaults
        /\ faults' = IF outcome = "saved" THEN faults ELSE faults + 1
        /\ files' = CASE outcome = "saved" -> files \cup {FileOf(Repo, TRUE)}
                      [] outcome = "dump_fails" -> files \cup {FileOf(Repo, FALSE)}
                      [] OTHER -> files
        /\ all_repo_data' = Append(all_repo_data, repo_data.json)
        /\ collected' = IF outcome = "saved" THEN collected \cup {Repo} ELSE collected
        /\ pc' = IF outcome = "saved" THEN "loop" ELSE "except"
        /\ idx' = IF outcome = "saved" THEN idx + 1 ELSE idx
        /\ IF outcome = "saved"
           THEN FreshLocals("none", "none")
           ELSE UNCHANGED <<repoVars, extra, in_window, fetch_pages, fetch_clean,
                            fetch_retried, started, requested>>
    /\ UNCHANGED <<upstream, pushes>>
    /\ UNCHANGED <<mrVars, mode, repos, handed>>
    /\ UNCHANGED <<attempted, sub_failed, failed>>
    /\ UNCHANGED pureVars

\* data_processor.save_repo_data(repo_data); all_repo_data.append(repo_data).
\* open() or json.dump() may fail
SaveAndAppend ==
    /\ pc = "save"
    /\ \E outcome \in {"saved", "open_fails", "dump_fails"} :
        /\ outcome # "saved" => faults + pushes < MaxFaults
        /\ faults' = IF outcome = "saved" THEN faults ELSE faults + 1
        /\ files' = CASE outcome = "saved" -> files \cup {FileOf(Repo, TRUE)}
                      [] outcome = "dump_fails" -> files \cup {FileOf(Repo, FALSE)}
                      [] OTHER -> files
        /\ all_repo_data' = IF outcome = "saved"
                            THEN Append(all_repo_data, repo_data.json)
                            ELSE all_repo_data
        /\ collected' = IF outcome = "saved" THEN collected \cup {Repo} ELSE collected
        /\ pc' = IF outcome = "saved" THEN "loop" ELSE "except"
        /\ idx' = IF outcome = "saved" THEN idx + 1 ELSE idx
        /\ IF outcome = "saved"
           THEN FreshLocals("none", "none")
           ELSE UNCHANGED <<repoVars, extra, in_window, fetch_pages, fetch_clean,
                            fetch_retried, started, requested>>
    /\ UNCHANGED <<upstream, pushes>>
    /\ UNCHANGED <<mrVars, mode, repos, handed>>
    /\ UNCHANGED <<attempted, sub_failed, failed>>
    /\ UNCHANGED pureVars

Collect_Begin == mode = "cli" /\ BeginRepo
Collect_Save == mode = "cli" /\ SaveAndAppend
App_Begin == mode = "app" /\ BeginRepo
App_Save == mode = "app" /\ SaveAndAppend

\* collect_github_data: except Exception inside the loop, then the next repository
Collect_Except ==
    /\ mode = "cli"
    /\ pc = "except"
    /\ failed' = failed \cup {Repo}
    /\ idx' = idx + 1
    /\ pc' = "loop"
    /\ FreshLocals("none", "none")
    /\ UNCHANGED <<upstream, faults, pushes>>
    /\ UNCHANGED <<mrVars, mode, repos, all_repo_data, files, handed>>
    /\ UNCHANGED <<attempted, sub_failed, collected>>
    /\ UNCHANGED pureVars

\* the dashboard: except Exception around the loop, st.error, nothing stored
App_Except ==
    /\ mode = "app"
    /\ pc = "except"
    /\ failed' = failed \cup {Repo}
    /\ pc' = "done"
    /\ FreshLocals("none", "none")
    /\ UNCHANGED <<upstream, faults, pushes>>
    /\ UNCHANGED <<mrVars, mode, repos, idx, all_repo_data, files, handed>>
    /\ UNCHANGED <<attempted, sub_failed, collected>>
    /\ UNCHANGED pureVars

Handed(data) == [set |-> TRUE, data |-> data]
NotHanded == [set |-> FALSE, data |-> <<>>]

\* return all_repo_data
Collect_Return ==
    /\ mode = "cli"
    /\ pc = "loop"
    /\ idx > Len(repos)
    /\ handed' = Handed(all_repo_data)
    /\ pc' = "done"
    /\ UNCHANGED <<envVars, mrVars, repoVars, histVars>>
    /\ UNCHANGED <<mode, repos, idx, all_repo_data, files>>
    /\ UNCHANGED pureVars

\* st.session_state.repo_data = all_repo_data
App_Store ==
    /\ mode = "app"
    /\ pc = "loop"
    /\ idx > Len(repos)
    /\ handed' = Handed(all_repo_data)
    /\ pc' = "done"
    /\ UNCHANGED <<envVars, mrVars, repoVars, histVars>>
    /\ UNCHANGED <<mode, repos, idx, all_repo_data, files>>
    /\ UNCHANGED pureVars

(* ----------------------------- the specification ----------------------- *)
\* a client that has been constructed, before the first repository of a batch
Constructed(m, rs, up) ==
    /\ mode = m
    /\ repos = rs
    /\ upstream = up
    /\ extra = 0
    /\ in_window = 0
    /\ faults = 0
    /\ pushes = 0
    /\ rate_limit_remaining = DefaultRemaining
    /\ mr = "idle"
    /\ mr_url = <<0, "none">>
    /\ mr_params = NoParams
    /\ mr_log = <<>>
    /\ mr_ret = None
    /\ mr_retries = 0
    /\ pc = "loop"
    /\ idx = 1
    /\ all_repo_data = <<>>
    /\ files = {}
    /\ handed = NotHanded
    /\ phase = "none"
    /\ fn = "none"
    /\ page = 0
    /\ acc = <<>>
    /\ repo_info = None
    /\ commits = <<>>
    /\ issues = <<>>
    /\ pull_requests = <<>>
    /\ releases = <<>>
    /\ raw_issues = <<>>
    /\ repo_data = None
    /\ fetch_pages = <<>>
    /\ fetch_clean = TRUE
    /\ fetch_retried = FALSE
    /\ started = <<>>
    /\ requested = {}
    /\ attempted = {}
    /\ sub_failed = {}
    /\ failed = {}
    /\ collected = {}

\* no aggregator has been called
NoView == [of |-> "none", out |-> <<>>]

\* no normalisation under study
NormIdle ==
    /\ raw_kind = "none"
    /\ raw = Absent
    /\ normalized = <<>>
    /\ wall_clock = Clock
\* no aggregation under study
AggIdle ==
    /\ snapshot = None
    /\ view = NoView

\* nothing has been loaded; a load is kept with its path, the number of saves
\* it came after and its outcome
NotLoaded == [set |-> FALSE, path |-> <<>>, after |-> 0, out |-> Raised]
\* a data directory that has not been written to
StoreIdle ==
    /\ disk = {}
    /\ saves = <<>>
    /\ loaded = NotLoaded

\* the state when a batch of n repositories starts
InitWith(n) ==
    /\ \E m \in {"cli", "app"}, up \in SrcSizes :
            Constructed(m, [i \in 1..n |-> i], up)
    /\ NormIdle
    /\ AggIdle
    /\ StoreIdle

Next ==
    \/ MakeRequest_Throttle
    \/ MakeRequest_Get
    \/ MakeRequest_Response
    \/ GetCommits_Request
    \/ GetCommits_Handle
    \/ GetIssues_Request
    \/ GetIssues_Handle
    \/ GetReleases_Request
    \/ GetReleases_Handle
    \/ UpstreamPush
    \/ ProcessRepo_GotInfo
    \/ ProcessRepo_GotCommits
    \/ ProcessRepo_GotIssues
    \/ ProcessRepo_Build
    \/ ProcessRepo_Except
    \/ Collect_Begin
    \/ Collect_Save
    \/ Collect_Except
    \/ Collect_Return
    \/ App_Begin
    \/ App_Save
    \/ App_Except
    \/ App_Store

\* a batch of MaxRepos repositories
Init == InitWith(MaxRepos)
Spec == Init /\ [][Next]_vars

\* a batch of one repository, collected by collect_github_data
InitOne ==
    /\ \E up \in SrcSizes : Constructed("cli", <<1>>, up)
    /\ NormIdle
    /\ AggIdle
    /\ StoreIdle
NextOne ==
    \/ MakeRequest_Throttle
    \/ MakeRequest_Get
    \/ MakeRequest_Response
    \/ GetCommits_Request
    \/ GetCommits_Handle
    \/ GetIssues_Request
    \/ GetIssues_Handle
    \/ GetReleases_Request
    \/ GetReleases_Handle
    \/ UpstreamPush
    \/ ProcessRepo_GotInfo
    \/ ProcessRepo_GotCommits
    \/ ProcessRepo_GotIssues
    \/ ProcessRepo_Build
    \/ ProcessRepo_Except
    \/ Collect_Begin
    \/ Collect_Save
    \/ Collect_Except
    \/ Collect_Return
SpecOne == InitOne /\ [][NextOne]_vars

\* a batch of MaxRepos repositories whose lists are empty and stay empty
InitBatch ==
    /\ \E m \in {"cli", "app"} : Constructed(m, [i \in 1..MaxRepos |-> i], 0)
    /\ NormIdle
    /\ AggIdle
    /\ StoreIdle
NextBatch ==
    \/ MakeRequest_Throttle
    \/ MakeRequest_Get
    \/ MakeRequest_Response
    \/ GetCommits_Request
    \/ GetCommits_Handle
    \/ GetIssues_Request
    \/ GetIssues_Handle
    \/ GetReleases_Request
    \/ GetReleases_Handle
    \/ ProcessRepo_GotInfo
    \/ ProcessRepo_GotCommits
    \/ ProcessRepo_GotIssues
    \/ ProcessRepo_Build
    \/ ProcessRepo_Except
    \/ Collect_Begin
    \/ Collect_Save
    \/ Collect_Except
    \/ Collect_Return
    \/ App_Begin
    \/ App_Save
    \/ App_Except
    \/ App_Store
SpecBatch == InitBatch /\ [][NextBatch]_vars

(* ----------------------------- the normalisation alone ----------------- *)
\* Raw payloads as the API can send them: optional parts absent or null
Accounts ==
    {Absent, Null}
    \cup { Val([login |-> l, id |-> i]) : l \in {Absent, Val("octocat")},
                                         i \in {Absent, Val(NodeId)} }
MetaAuthors ==
    {Absent, Null}
    \cup { MetaAuthor(n, d) : n \in {Absent, Val("Mona")}, d \in {Absent, Val(Stamps[1])} }
Messages == {Absent, Null, Text(<<"subject", "body">>)}
CommitInfos ==
    {Absent, Null} \cup { CommitInfo(a, m) : a \in MetaAuthors, m \in Messages }
LabelLists ==
    {Absent,
     Val(<<>>),
     Val(<<Label(Val("bug"))>>),
     Val(<<Label(Val("bug")), Label(Absent)>>),
     Val(<<Label(Val("bug")), Label(Val("bug"))>>)}
RawCommits ==
    { [sha |-> Val(NodeId), author |-> a, commit |-> c, html_url |-> Val(NodeId)] :
        a \in Accounts, c \in CommitInfos }
RawIssues(marker) ==
    { [number |-> n, title |-> Val(NodeId), state |-> Val("open"),
       created_at |-> Val(Stamps[1]), updated_at |-> Val(Stamps[1]),
       user |-> a, labels |-> l, html_url |-> Val(NodeId),
       pull_request |-> marker] :
        n \in {Absent, Val(NodeId)}, a \in Accounts, l \in LabelLists }
RawReleases ==
    { [tag_name |-> Val(NodeId), name |-> Val(NodeId), published_at |-> Val(Stamps[1]),
       author |-> a, html_url |-> Val(NodeId)] : a \in Accounts }

\* the list a run normalises: n well-formed records, then the one under study
WithOthers(others) == others \o <<raw>>
Last(s) == s[Len(s)]
NormRun(kind, rec) ==
    /\ raw_kind = kind
    /\ Len(normalized) < MaxRuns
    /\ normalized' = Append(normalized, rec)
    /\ UNCHANGED <<raw_kind, raw, wall_clock>>
    /\ UNCHANGED <<envVars, mrVars, batchVars, repoVars, histVars, aggVars, storeVars>>

\* one run of a normalisation loop of process_repo_data over a list that ends
\* with the record under study
Norm_Commits ==
    \E n \in 0..1 :
        NormRun("commit",
                Last(NormalizeCommits(WithOthers([i \in 1..n |-> RawCommit(i)]))))
Norm_Issues ==
    \E n \in 0..1 :
        NormRun("issue",
                Last(NormalizeIssues(WithOthers([i \in 1..n |-> RawIssue(i)]))))
Norm_PullRequests ==
    \E n \in 0..1 :
        NormRun("pull_request",
                Last(NormalizePullRequests(WithOthers([i \in 1..n |-> RawIssue(i)]))))
Norm_Releases ==
    \E n \in 0..1 :
        NormRun("release",
                Last(NormalizeReleases(WithOthers([i \in 1..n |-> RawRelease(i)]))))
\* time passes and the client's budget changes between two runs
Norm_Elapse ==
    /\ raw_kind # "none"
    /\ wall_clock = Clock
    /\ wall_clock' = wall_clock + 1
    /\ \E h \in RemainingHeaders : rate_limit_remaining' = RemainingOf(h)
    /\ UNCHANGED <<raw_kind, raw, normalized>>
    /\ UNCHANGED <<mr, mr_url, mr_params, mr_log, mr_ret, mr_retries>>
    /\ UNCHANGED <<envVars, batchVars, repoVars, histVars, aggVars, storeVars>>

InitNorm ==
    /\ Constructed("cli", <<>>, 0)
    /\ raw_kind \in {"commit", "issue", "pull_request", "release"}
    /\ raw \in CASE raw_kind = "commit" -> RawCommits
               [] raw_kind = "issue" -> RawIssues(FALSE)
               [] raw_kind = "pull_request" -> RawIssues(TRUE)
               [] raw_kind = "release" -> RawReleases
    /\ normalized = <<>>
    /\ wall_clock = Clock
    /\ AggIdle
    /\ StoreIdle
NextNorm ==
    \/ Norm_Commits
    \/ Norm_Issues
    \/ Norm_PullRequests
    \/ Norm_Releases
    \/ Norm_Elapse
SpecNorm == InitNorm /\ [][NextNorm]_vars

(* ----------------------------- the aggregators ------------------------- *)
\* a variant of Tally that starts the count of an author seen again anew
Tally_Restarts(rows, author) ==
    IF \E k \in 1..Len(rows) : rows[k].Contributor = author
    THEN [k \in 1..Len(rows) |->
            IF rows[k].Contributor = author
            THEN [rows[k] EXCEPT !.Commits = 1] ELSE rows[k]]
    ELSE Append(rows, [Contributor |-> author, Commits |-> 1])

\* contributors[author] += 1, a new author entering the dict after the others
Tally(rows, author) ==
    IF \E k \in 1..Len(rows) : rows[k].Contributor = author
    THEN [k \in 1..Len(rows) |->
            IF rows[k].Contributor = author
            THEN [rows[k] EXCEPT !.Commits = @ + 1] ELSE rows[k]]
    ELSE Append(rows, [Contributor |-> author, Commits |-> 1])
RECURSIVE CountAuthors(_, _)
\* the loop over the commits: the dict's items, in insertion order
CountAuthors(cs, rows) ==
    IF cs = <<>> THEN rows
    ELSE CountAuthors(Tail(cs), Tally(rows, Get(Head(cs), "author", Val("Unknown"))))

Orders(n) == { p \in [1..n -> 1..n] : \A i, j \in 1..n : p[i] = p[j] => i = j }
Permuted(rows, p) == [i \in 1..Len(rows) |-> rows[p[i]]]
NonIncreasing(rows) ==
    \A i \in 1..(Len(rows) - 1) : rows[i].Commits >= rows[i + 1].Commits
\* df.sort_values('Commits', ascending=False): the default kind is quicksort,
\* which orders rows of equal Commits in no particular way
SortValuesDescending(rows) ==
    { Permuted(rows, p) : p \in { q \in Orders(Len(rows)) :
                                      NonIncreasing(Permuted(rows, q)) } }
\* sorted(items, key=..., reverse=True): stable
SortedDescending(rows) ==
    Permuted(rows, CHOOSE p \in Orders(Len(rows)) :
        \A i, j \in 1..Len(rows) :
            i < j => \/ rows[p[i]].Commits > rows[p[j]].Commits
                     \/ rows[p[i]].Commits = rows[p[j]].Commits /\ p[i] < p[j])
FirstN(s, n) == SubSeq(s, 1, Min(n, Len(s)))

\* pd.to_datetime of a field of a record: None parses to nothing
ParseField(x) == IF x.is = "val" THEN ToDatetime(x.v) ELSE NaT
RECURSIVE Ascending(_)
\* the elements of a set of numbers, smallest first
Ascending(S) ==
    IF S = {} THEN <<>>
    ELSE LET m == CHOOSE x \in S : \A y \in S : x <= y IN <<m>> \o Ascending(S \ {m})
\* groupby(date_df['date'].dt.date).size().reset_index(): rows without a date
\* are in no group
DailyCounts(cs) ==
    IF cs = <<>> THEN <<>>
    ELSE LET date == [i \in 1..Len(cs) |-> ParseField(Get(cs[i], "date", Val("")))]
             dated == { i \in 1..Len(cs) : ~date[i].nat }
             days == Ascending({ date[i].day : i \in dated })
         IN  [k \in 1..Len(days) |->
                [Date |-> days[k],
                 Count |-> Cardinality({ i \in dated : date[i].day = days[k] })]]
\* the display frame of extract_issue_stats and extract_pr_stats
DisplayRows(items) ==
    [i \in 1..Len(items) |->
        [Number |-> items[i].number, Title |-> items[i].title,
         State |-> items[i].state, Author |-> items[i].author,
         Created |-> ParseField(items[i].created_at), URL |-> items[i].url]]
\* datetime.strptime(x, '%Y-%m-%dT%H:%M:%SZ') raises on anything else
StrptimeRaises(x) == ParseField(x).nat
\* the summary text, by its parts
SummaryText(snap) ==
    IF \/ \E i \in 1..Min(ShownReleases, Len(snap.releases)) :
            StrptimeRaises(snap.releases[i].published_at)
       \/ \E i \in 1..Min(ShownItems, Len(snap.issues)) :
            StrptimeRaises(snap.issues[i].created_at)
       \/ \E i \in 1..Min(ShownItems, Len(snap.pull_requests)) :
            StrptimeRaises(snap.pull_requests[i].created_at)
    THEN Raised
    ELSE Val([repo_name |-> snap.repo_name,
              time_period |-> snap.time_period,
              commit_count |-> Len(snap.commits),
              issue_count |-> Len(snap.issues),
              pr_count |-> Len(snap.pull_requests),
              release_count |-> Len(snap.releases),
              contributor_count |->
                  Cardinality({ Get(snap.commits[i], "author", Val("Unknown")) :
                                    i \in 1..Len(snap.commits) }),
              releases |-> [i \in 1..Min(ShownReleases, Len(snap.releases)) |->
                              ParseField(snap.releases[i].published_at).day],
              top_contributors |->
                  FirstN(SortedDescending(CountAuthors(snap.commits, <<>>)), ShownItems),
              issues |-> [i \in 1..Min(ShownItems, Len(snap.issues)) |->
                            ParseField(snap.issues[i].created_at).day],
              pull_requests |-> [i \in 1..Min(ShownItems, Len(snap.pull_requests)) |->
                            ParseField(snap.pull_requests[i].created_at).day]])

\* an aggregator is called on the snapshot and returns out
Aggregate(name, out) ==
    /\ ~snapshot.none
    /\ view' = [of |-> name, out |-> out]
    /\ snapshot' = snapshot
    /\ UNCHANGED <<envVars, mrVars, batchVars, repoVars, histVars, normVars, storeVars>>

ExtractContributorStats ==
    \E df \in SortValuesDescending(CountAuthors(snapshot.json.commits, <<>>)) :
        Aggregate("extract_contributor_stats", df)
\* a variant of ExtractIssueStats that cuts created_at down to its date in the
\* records of the snapshot themselves
ExtractIssueStats_InPlace ==
    /\ ~snapshot.none
    /\ view' = [of |-> "extract_issue_stats", out |-> DisplayRows(snapshot.json.issues)]
    /\ LET old == snapshot.json.issues
           new == [i \in 1..Len(old) |-> [old[i] EXCEPT !.created_at = Val("2024-01-01")]]
       IN  snapshot' = Json([snapshot.json EXCEPT !.issues = new])
    /\ UNCHANGED <<envVars, mrVars, batchVars, repoVars, histVars, normVars, storeVars>>

ExtractIssueStats ==
    Aggregate("extract_issue_stats", DisplayRows(snapshot.json.issues))
ExtractPrStats ==
    Aggregate("extract_pr_stats", DisplayRows(snapshot.json.pull_requests))
GenerateRepoSummaryText ==
    Aggregate("generate_repo_summary_text", SummaryText(snapshot.json))
GenerateCommitActivityByDay ==
    Aggregate("generate_commit_activity_by_day", DailyCounts(snapshot.json.commits))

\* Snapshots as process_repo_data builds them, from raw payloads
Authors == {"A", "B", "C"}
CommitBy(author, date) ==
    [sha |-> Val(NodeId),
     author |-> Account(Val(author)),
     commit |-> CommitInfo(MetaAuthor(Val(author), date), Text(<<"subject">>)),
     html_url |-> Val(NodeId)]
IssueAt(created, marker) ==
    [number |-> Val(NodeId), title |-> Val(NodeId), state |-> Val("open"),
     created_at |-> created, updated_at |-> created,
     user |-> Account(Val("A")), labels |-> Val(<<>>), html_url |-> Val(NodeId),
     pull_request |-> marker]
ReleaseAt(published) ==
    [tag_name |-> Val(NodeId), name |-> Val(NodeId), published_at |-> published,
     author |-> Account(Val("A")), html_url |-> Val(NodeId)]
Dates == {Absent} \cup { Val(Stamps[k]) : k \in 1..Len(Stamps) }
\* up to MaxCommits commits by any authors, of one date
AuthorStudies ==
    UNION { [1..n -> { CommitBy(a, Val(Stamps[1])) : a \in Authors }] : n \in 0..MaxCommits }
\* up to MaxDated commits of any dates, one of them none, by one author
DateStudies ==
    UNION { [1..n -> { CommitBy("A", d) : d \in Dates }] : n \in 0..MaxDated }
UpToOne(S) == {<<>>} \cup { <<x>> : x \in S }
SnapshotOf(cs, is, prs, rs) ==
    Json(Snapshot(NodeId, Json([full_name |-> NodeId]), cs, is, prs, rs))
Snapshots ==
    { SnapshotOf(cs, <<>>, <<>>, <<>>) : cs \in AuthorStudies \cup DateStudies }
    \cup { SnapshotOf(<<>>, is, prs, rs) :
              is \in UpToOne({ IssueAt(d, FALSE) : d \in {Absent, Val(Stamps[1])} }),
              prs \in UpToOne({ IssueAt(d, TRUE) : d \in {Absent, Val(Stamps[1])} }),
              rs \in UpToOne({ ReleaseAt(d) : d \in {Absent, Val(Stamps[1])} }) }

InitAgg ==
    /\ Constructed("cli", <<>>, 0)
    /\ NormIdle
    /\ snapshot \in Snapshots
    /\ view = NoView
    /\ StoreIdle
NextAgg ==
    \/ ExtractContributorStats
    \/ ExtractIssueStats
    \/ ExtractPrStats
    \/ GenerateRepoSummaryText
    \/ GenerateCommitActivityByDay
SpecAgg == InitAgg /\ [][NextAgg]_vars

(* ----------------------------- the data directory ---------------------- *)
\* A JSON text, by the values it is made of
JNull == [t |-> "null"]
\* a string or a number
JScalar(v) == [t |-> "scalar", v |-> v]
JArray(items) == [t |-> "array", items |-> items]
JObject(members) == [t |-> "object", members |-> members]

\* a variant of DumpScalar that writes None as the string 'None'
DumpScalar_NoneAsText(x) == IF x.is = "null" THEN JScalar("None") ELSE JScalar(x.v)

\* json.dump of a str, an int or None
DumpScalar(x) == IF x.is = "null" THEN JNull ELSE JScalar(x.v)
\* json.dump of a record of a snapshot's lists: a dict of scalars, labels a list
DumpRecord(rec) ==
    JObject([k \in DOMAIN rec |->
                IF k = "labels"
                THEN JArray([i \in 1..Len(rec[k].v) |-> DumpScalar(rec[k].v[i])])
                ELSE DumpScalar(rec[k])])
DumpList(s) == JArray([i \in 1..Len(s) |-> DumpRecord(s[i])])
\* json.dump(repo_data, f, indent=2)
JsonDump(snap) ==
    JObject([repo_name |-> JScalar(snap.repo_name),
             repo_info |-> JObject([full_name |-> JScalar(snap.repo_info.full_name)]),
             commits |-> DumpList(snap.commits),
             issues |-> DumpList(snap.issues),
             pull_requests |-> DumpList(snap.pull_requests),
             releases |-> DumpList(snap.releases),
             time_period |-> JScalar(snap.time_period),
             collection_date |-> JScalar(snap.collection_date)])

\* json.load of a string, a number or null
LoadScalar(node) == IF node.t = "null" THEN Null ELSE Val(node.v)
\* json.load of an object of scalars and arrays of scalars
LoadRecord(node) ==
    [k \in DOMAIN node.members |->
        IF node.members[k].t = "array"
        THEN Val([i \in 1..Len(node.members[k].items) |->
                    LoadScalar(node.members[k].items[i])])
        ELSE LoadScalar(node.members[k])]
LoadList(node) == [i \in 1..Len(node.items) |-> LoadRecord(node.items[i])]
\* json.load(f) of the text of a snapshot
JsonLoad(doc) ==
    [k \in DOMAIN doc.members |->
        CASE doc.members[k].t = "scalar" -> doc.members[k].v
          [] doc.members[k].t = "array" -> LoadList(doc.members[k])
          [] doc.members[k].t = "object" ->
                [m \in DOMAIN doc.members[k].members |-> doc.members[k].members[m].v]]

\* repo_data['repo_name'].replace('/', '_'), a name being the sequence of its
\* characters
ReplaceSlashes(name) == [i \in 1..Len(name) |-> IF name[i] = "/" THEN "_" ELSE name[i]]
\* os.path.join(self.data_dir, f"{repo_name}_{timestamp}.json"), the timestamp
\* being datetime.now() cut to the second
FilePath(repo_name, now) == [name |-> ReplaceSlashes(repo_name), timestamp |-> now]
\* a file: its path, the text in it, and whether the text was written to its end
File(path, doc, complete) == [path |-> path, doc |-> doc, complete |-> complete]
\* open(filepath, 'w') and what is written before the with block is left
Written(d, path, doc, complete) ==
    { f \in d : f.path # path } \cup {File(path, doc, complete)}

\* the repositories the data directory is used for
RepoNames ==
    {<<"a", "/", "b">>, <<"a", "_", "b", "/", "c">>, <<"a", "/", "b", "_", "c">>}
\* what the sub-fetches returned for a snapshot that is saved: nothing, or
\* items of each kind, optional parts of them missing or null
StoreStudies ==
    {[commits |-> <<>>, issues |-> <<>>, releases |-> <<>>],
     [commits |-> <<CommitBy("A", Val(Stamps[1])), CommitBy("B", Absent)>>,
      issues |-> <<[IssueAt(Val(Stamps[1]), FALSE)
                        EXCEPT !.labels = Val(<<Label(Val("bug")), Label(Val("ui"))>>)]>>,
      releases |-> <<ReleaseAt(Val(Stamps[1])),
                     [ReleaseAt(Val(Stamps[2])) EXCEPT !.name = Null]>>]}

\* data_processor.save_repo_data(repo_data) on a snapshot process_repo_data
\* has returned; open() or json.dump() may fail
Store_Save ==
    /\ Len(saves) < MaxSaves
    /\ \E repo \in RepoNames, got \in StoreStudies,
          outcome \in {"saved", "open_fails", "dump_fails"} :
        LET snap == Snapshot(repo, Json([full_name |-> repo]), got.commits,
                             got.issues, <<>>, got.releases)
            filepath == FilePath(snap.repo_name, wall_clock)
        IN
        /\ disk' = CASE outcome = "saved" ->
                            Written(disk, filepath, JsonDump(snap), TRUE)
                     [] outcome = "dump_fails" ->
                            Written(disk, filepath, JsonDump(snap), FALSE)
                     [] OTHER -> disk
        /\ saves' = Append(saves, [repo_data |-> snap, filepath |-> filepath,
                                   outcome |-> outcome])
    /\ UNCHANGED <<loaded, normVars, aggVars>>
    /\ UNCHANGED <<envVars, mrVars, batchVars, repoVars, histVars>>

\* data_processor.load_data_file(filepath) on a file of the data directory;
\* json.load raises on a text that stops before its end
Store_Load ==
    /\ \E f \in disk :
        loaded' = [set |-> TRUE, path |-> f.path, after |-> Len(saves),
                   out |-> IF f.complete THEN Val(JsonLoad(f.doc)) ELSE Raised]
    /\ UNCHANGED <<disk, saves, normVars, aggVars>>
    /\ UNCHANGED <<envVars, mrVars, batchVars, repoVars, histVars>>

\* a second passes
Store_Tick ==
    /\ wall_clock < Clock + MaxTicks
    /\ wall_clock' = wall_clock + 1
    /\ UNCHANGED <<raw_kind, raw, normalized, aggVars, storeVars>>
    /\ UNCHANGED <<envVars, mrVars, batchVars, repoVars, histVars>>

InitStore ==
    /\ Constructed("cli", <<>>, 0)
    /\ NormIdle
    /\ AggIdle
    /\ StoreIdle
NextStore ==
    \/ Store_Save
    \/ Store_Load
    \/ Store_Tick
SpecStore == InitStore /\ [][NextStore]_vars

(* ======================================================================= *)
(* The claims                                                              *)
(* ======================================================================= *)
RECURSIVE ConcatPages(_, _, _)
\* pages p..last of a list, one after the other
ConcatPages(list, p, last) ==
    IF p > last THEN <<>> ELSE PageOf(list, p) \o ConcatPages(list, p + 1, last)

NoDuplicates(s) == \A i, j \in 1..Len(s) : s[i] = s[j] => i = j
Names(snapshots) == { snapshots[i].repo_name : i \in 1..Len(snapshots) }
LastEv == mr_log[Len(mr_log)]
Ended == mr \in {"ret", "raised"}

\* C1: when get_commits or get_issues has returned, having paginated a source
\* that held N full pages of 30 items and then a shorter (possibly empty) page,
\* that did not change meanwhile and answered every page request with a 200 in
\* the end, the loop has asked for the pages 1..N+1 in this order and no other,
\* and returns the items of these pages, one page after the other.
C1_PaginationStopsAfterShortPage ==
    (pc = "in_repo" /\ phase \in {"commits", "issues"} /\ fn = "returned"
        /\ fetch_clean)
    => LET N == upstream \div 30 IN
        /\ Len(PageOf(RawList(phase), N + 1)) < 30
        /\ \A p \in 1..N : Len(PageOf(RawList(phase), p)) = 30
        /\ fetch_pages = [p \in 1..(N + 1) |-> p]
        /\ acc = ConcatPages(RawList(phase), 1, N + 1)

\* C1's case: get_issues returned after a full page and a one-item page
C1_Witness ==
    /\ pc = "in_repo" /\ phase = "issues" /\ fn = "returned" /\ fetch_clean
    /\ fetch_pages = <<1, 2>>
    /\ Len(acc) = 31

\* C2: in the snapshot process_repo_data has built, every item get_issues
\* returned is in pull_requests when it carries the pull_request marker and in
\* issues when it does not, no number is in both, and the two lists together
\* are as long as the list get_issues returned.
C2_IssuesPartition ==
    (pc = "save")
    => LET snap == repo_data.json
           inIssues(n) == \E k \in 1..Len(snap.issues) : snap.issues[k].number = n
           inPRs(n) == \E k \in 1..Len(snap.pull_requests) :
                            snap.pull_requests[k].number = n
       IN
        /\ Len(snap.issues) + Len(snap.pull_requests) = Len(raw_issues)
        /\ \A i \in 1..Len(raw_issues) :
            /\ inPRs(raw_issues[i].number) <=> raw_issues[i].pull_request
            /\ inIssues(raw_issues[i].number) <=> ~raw_issues[i].pull_request

\* C2's case: a snapshot with both issues and pull requests
C2_Witness ==
    /\ pc = "save"
    /\ Len(repo_data.json.issues) > 1
    /\ Len(repo_data.json.pull_requests) > 1

C4_BatchTolerant ==
    (pc = "done")
    => /\ attempted = { repos[i] : i \in 1..Len(repos) }
       /\ handed.set
       /\ collected \subseteq Names(handed.data)

\* C5: a rate-limit 403 is followed at once by the rate-limit sleep, the request
\* that comes after it has the url and the params of the request the 403
\* answered, and when that request is answered with a 200 the call returns the
\* body of that answer.
C5_RateLimitRetry ==
    /\ \A i \in 1..Len(mr_log) :
          mr_log[i].ev = "resp_rl"
          => /\ i < Len(mr_log)
             /\ mr_log[i + 1].ev = "sleep_rl"
             /\ \A j \in (i + 1)..Len(mr_log) :
                   mr_log[j].ev = "get"
                   => /\ mr_log[j].url = mr_log[i].url
                      /\ mr_log[j].params = mr_log[i].params
    /\ (mr = "ret" /\ mr_retries > 0 /\ LastEv.n = 200)
       => mr_ret = Json(Body(mr_log[1].url, mr_log[1].params))

\* C5's case: page 2 of a list was refused with a rate-limit 403, and the retry
\* returned the page
C5_Witness ==
    /\ mr = "ret"
    /\ mr_retries > 0
    /\ mr_log[1].ev = "resp_rl"
    /\ mr_log[1].params.page = 2
    /\ ~mr_ret.none
    /\ Len(mr_ret.json) = 1

\* C6: one call of _make_request gives up retrying by itself: it makes fewer
\* retries than the server gives rate-limit answers to it.
C6_RetriesBounded == mr_retries < MaxRateLimited

\* C7: a response that is neither 2xx nor a rate-limit 403 makes _make_request
\* raise, after the one request of this activation, with nothing after it.
C7_FatalResponseRaises ==
    (Ended /\ LastEv.ev = "resp" /\ ~(200 <= LastEv.n /\ LastEv.n < 300))
    => /\ mr = "raised"
       /\ Cardinality({ i \in 1..Len(mr_log) : mr_log[i].ev = "get" }) = 1

\* C8: a 2xx response makes _make_request return the parsed body of the
\* response, the budget being the response's X-RateLimit-Remaining.
C8_SuccessReturnsBody ==
    (Ended /\ LastEv.ev = "resp" /\ 200 <= LastEv.n /\ LastEv.n < 300)
    => /\ mr = "ret"
       /\ mr_ret = Json(Body(mr_url, mr_params))
       /\ LastEv.hdr # NoHeader => rate_limit_remaining = LastEv.hdr

\* C9: in every activation of _make_request, the request is preceded by a
\* 60-second sleep when the budget at entry was below 10, and by no sleep of
\* this activation when it was 10 or more.
C9_PreemptiveThrottle ==
    \A i \in 1..Len(mr_log) :
        /\ mr_log[i].ev = "enter"
           => IF mr_log[i].n < 10
              THEN /\ i < Len(mr_log)
                   /\ mr_log[i + 1].ev = "sleep" /\ mr_log[i + 1].n = 60
                   /\ i + 2 <= Len(mr_log) => mr_log[i + 2].ev = "get"
              ELSE i + 1 <= Len(mr_log) => mr_log[i + 1].ev = "get"
        /\ mr_log[i].ev = "get"
           => \E k \in 1..(i - 1) :
                /\ mr_log[k].ev = "enter"
                /\ \A m \in (k + 1)..(i - 1) : mr_log[m].ev = "sleep"

\* C9's case: a request sent after the sleep, the budget being 9
C9_Witness ==
    /\ mr = "await"
    /\ \E i \in 1..Len(mr_log) :
        /\ mr_log[i].ev = "enter" /\ mr_log[i].n = 9
        /\ mr_log[i + 1].ev = "sleep"
        /\ mr_log[i + 2].ev = "get"

\* C10: in a snapshot process_repo_data returns, no sha is twice in commits and
\* no number twice in issues or in pull_requests.
C10_NoDuplicates ==
    (pc = "save")
    => /\ NoDuplicates(repo_data.json.commits)
       /\ NoDuplicates(repo_data.json.issues)
       /\ NoDuplicates(repo_data.json.pull_requests)

HasOlder(pg) == Len(SelectSeq(pg, IsRecent)) < Len(pg)
PagesOf(list) == (Len(list) + PageSize - 1) \div PageSize
RECURSIVE ConcatRecent(_, _, _)
\* the in-window releases of pages p..last of a list, one page after the other
ConcatRecent(list, p, last) ==
    IF p > last THEN <<>>
    ELSE SelectSeq(PageOf(list, p), IsRecent) \o ConcatRecent(list, p + 1, last)

\* C11: when get_releases has returned, every release it returns was published
\* after the cutoff; and when the source, answering every page request with a
\* page, has a page with fewer releases passing the cutoff than it holds, the
\* loop asked for the pages up to the first such page and for no later one, and
\* returns the in-window releases of these pages, those of that page included.
C11_ReleasesWindowAndEarlyStop ==
    (pc = "in_repo" /\ phase = "releases" /\ fn = "returned")
    => /\ \A k \in 1..Len(acc) : After(ToDatetime(acc[k].published_at.v), SinceDate(Today))
       /\ fetch_clean
          => LET list == RawList("releases")
                 older == { p \in 1..PagesOf(list) : HasOlder(PageOf(list, p)) }
             IN  older # {}
                 => LET first == CHOOSE p \in older : \A q \in older : p <= q IN
                     /\ fetch_pages = [q \in 1..first |-> q]
                     /\ acc = ConcatRecent(list, 1, first)

\* C11's case: the first page is full and holds older releases next to newer
\* ones, a second page exists; get_releases returned the newer ones
C11_Witness ==
    /\ pc = "in_repo" /\ phase = "releases" /\ fn = "returned" /\ fetch_clean
    /\ upstream > PageSize
    /\ in_window > 0 /\ in_window < PageSize
    /\ fetch_pages = <<1>>
    /\ Len(acc) = in_window

(* ----------------------------- normalisation claims -------------------- *)
HasLogin(commit) == commit.author.is = "val" /\ commit.author.v.login.is = "val"
HasName(commit) ==
    /\ commit.commit.is = "val"
    /\ commit.commit.v.author.is = "val"
    /\ commit.commit.v.author.v.name.is = "val"
\* the author the resolution order gives a raw commit
ResolvedAuthor(commit) ==
    IF HasLogin(commit) THEN commit.author.v.login
    ELSE IF HasName(commit) THEN commit.commit.v.author.v.name
    ELSE Val("Unknown")

\* C12: the author of every commit record the normalisation produces is the
\* account login when the raw commit has one, otherwise the display name of
\* the commit-metadata author when it has one, and "Unknown" otherwise.
C12_AuthorResolution ==
    \A r \in 1..Len(normalized) :
        (raw_kind = "commit" /\ ~Raises(normalized[r]))
        => normalized[r].author = ResolvedAuthor(raw)

\* C13: a raw record whose author or user object, or whose message, is absent
\* or null is still normalised: the normalisation does not raise, a missing
\* message gives the empty string, and a missing author (for a commit: no
\* account and no metadata author name) gives "Unknown".
C13_ToleratesMissingOptionals ==
    \A r \in 1..Len(normalized) :
        LET rec == normalized[r] IN
        /\ (raw_kind = "commit" /\ raw.commit.is = "val")
           => /\ ~Raises(rec)
              /\ raw.commit.v.message.is # "val" => rec.message = Val("")
              /\ (raw.author.is # "val" /\ ~HasName(raw)) => rec.author = Val("Unknown")
        /\ (raw_kind \in {"issue", "pull_request"})
           => /\ ~Raises(rec)
              /\ raw.user.is # "val" => rec.author = Val("Unknown")
        /\ (raw_kind = "release")
           => /\ ~Raises(rec)
              /\ raw.author.is # "val" => rec.author = Val("Unknown")

NamesOf(labels) == { labels[i].v.name : i \in { j \in 1..Len(labels) : labels[j].v.name.is = "val" } }
Elements(s) == { s[i] : i \in 1..Len(s) }

\* C14: the labels of a normalised issue or pull request are the names of the
\* raw labels that have a name, each once: a raw label without a name gives no
\* element, and a name carried by several raw labels is there once.
C14_LabelsAreNameSet ==
    \A r \in 1..Len(normalized) :
        (raw_kind \in {"issue", "pull_request"} /\ raw.labels.is = "val"
            /\ ~Raises(normalized[r]))
        => /\ Elements(normalized[r].labels.v) = NamesOf(raw.labels.v)
           /\ NoDuplicates(normalized[r].labels.v)

\* C15: the normalisation of an issue or pull request that has no number raises:
\* it produces no record for it.
C15_MissingNumberRaises ==
    \A r \in 1..Len(normalized) :
        (raw_kind \in {"issue", "pull_request"} /\ raw.number.is = "absent")
        => Raises(normalized[r])

AuthorsOf(cs) == { cs[i].author : i \in 1..Len(cs) }
CommitsBy(cs, a) == Cardinality({ i \in 1..Len(cs) : cs[i].author = a })
FirstSeen(cs, a) == CHOOSE i \in 1..Len(cs) :
                        cs[i].author = a /\ \A j \in 1..(i - 1) : cs[j].author # a

\* C17: the rows extract_contributor_stats returns are in non-increasing order
\* of Commits, and of two rows with equal Commits the one whose contributor is
\* seen first among the snapshot's commits comes first.
C17_StableRanking ==
    (view.of = "extract_contributor_stats")
    => LET rows == view.out
           cs == snapshot.json.commits
       IN  /\ NonIncreasing(rows)
           /\ \A i, j \in 1..Len(rows) :
                (i < j /\ rows[i].Commits = rows[j].Commits)
                => FirstSeen(cs, rows[i].Contributor) < FirstSeen(cs, rows[j].Contributor)

\* the example of the contributor ranking: commits authored A, B, A, C, A, B
ExampleAuthors == <<"A", "B", "A", "C", "A", "B">>
IsExample(cs) ==
    /\ Len(cs) = Len(ExampleAuthors)
    /\ \A i \in 1..Len(cs) : cs[i].author = Val(ExampleAuthors[i])

RECURSIVE SumOf(_, _)
\* the sum of a column of numbers of a frame
SumOf(rows, column) ==
    IF rows = <<>> THEN 0 ELSE Head(rows)[column] + SumOf(Tail(rows), column)

\* C18: extract_contributor_stats returns one row for every author of the
\* snapshot's commits and no other row, no author twice, each row with the
\* number of commits of its author, so that the counts add up to the number of
\* commits; for commits authored A, B, A, C, A, B it returns (A,3), (B,2), (C,1).
C18_OneRowPerAuthor ==
    (view.of = "extract_contributor_stats")
    => LET rows == view.out
           cs == snapshot.json.commits
       IN  /\ { rows[k].Contributor : k \in 1..Len(rows) } = AuthorsOf(cs)
           /\ Len(rows) = Cardinality(AuthorsOf(cs))
           /\ \A k \in 1..Len(rows) : rows[k].Commits = CommitsBy(cs, rows[k].Contributor)
           /\ SumOf(rows, "Commits") = Len(cs)
           /\ IsExample(cs)
              => rows = <<[Contributor |-> Val("A"), Commits |-> 3],
                          [Contributor |-> Val("B"), Commits |-> 2],
                          [Contributor |-> Val("C"), Commits |-> 1]>>

\* C18's case: the ranking of the example has been computed
C18_Witness ==
    /\ view.of = "extract_contributor_stats"
    /\ IsExample(snapshot.json.commits)
    /\ Len(view.out) = Cardinality(Authors)

\* the calendar date a timestamp is written with, as the day of January 2024
WrittenDay(s) ==
    CASE s = "2024-01-01T10:00:00Z" -> 1
      [] s = "2024-01-01T23:00:00Z" -> 1
      [] s = "2024-01-02T01:00:00Z" -> 2

\* C19: generate_commit_activity_by_day returns one row for every calendar
\* date that a commit timestamp of the snapshot is written with and no other
\* row, each with the number of commits written with that date, the rows in
\* ascending order of date; for commits at 2024-01-01T10:00Z, 2024-01-01T23:00Z
\* and 2024-01-02T01:00Z it returns (2024-01-01, 2), (2024-01-02, 1).
C19_DailyHistogram ==
    (view.of = "generate_commit_activity_by_day")
    => LET rows == view.out
           cs == snapshot.json.commits
           stamped == { i \in 1..Len(cs) : cs[i].date.v # "" }
           days == { WrittenDay(cs[i].date.v) : i \in stamped }
       IN  /\ { rows[k].Date : k \in 1..Len(rows) } = days
           /\ Len(rows) = Cardinality(days)
           /\ \A k \in 1..Len(rows) :
                rows[k].Count =
                    Cardinality({ i \in stamped : WrittenDay(cs[i].date.v) = rows[k].Date })
           /\ \A k \in 1..(Len(rows) - 1) : rows[k].Date < rows[k + 1].Date
           /\ (Len(cs) = Len(Stamps) /\ \A i \in 1..Len(cs) : cs[i].date.v = Stamps[i])
              => rows = <<[Date |-> 1, Count |-> 2], [Date |-> 2, Count |-> 1]>>

\* C19's case: the histogram of the three example commits has been computed
C19_Witness ==
    /\ view.of = "generate_commit_activity_by_day"
    /\ Len(snapshot.json.commits) = Len(Stamps)
    /\ \A i \in 1..Len(Stamps) : snapshot.json.commits[i].date.v = Stamps[i]
    /\ Len(view.out) > 1

\* C20: no step of an aggregator changes the snapshot it is called on: the
\* snapshot after the call is the snapshot before it, field for field.
C20_AggregatorsLeaveSnapshot == [][snapshot' = snapshot]_vars

\* C20's case: an aggregator has been called on a snapshot that has an issue
\* with a creation date and a pull request
C20_Witness ==
    /\ view.of = "extract_issue_stats"
    /\ Len(snapshot.json.issues) > 0
    /\ snapshot.json.issues[1].created_at.v # ""
    /\ Len(snapshot.json.pull_requests) > 0
    /\ Len(view.out) > 0

\* C29: the counts generate_commit_activity_by_day returns add up to the number
\* of commits of the snapshot, whatever the dates of its commits are, the empty
\* string included.
C29_HistogramCountsEveryCommit ==
    (view.of = "generate_commit_activity_by_day")
    => SumOf(view.out, "Count") = Len(snapshot.json.commits)

(* ----------------------------- rate-limit claims ----------------------- *)
\* C23: every rate-limit sleep lasts max(reset - now, 0) + 10 seconds, reset
\* being the X-RateLimit-Reset of the answer, 0 when the header is missing: at
\* least 10 seconds whatever the reset is, and when the reset lies ahead, long
\* enough for the retry to come no earlier than the reset.
C23_RateLimitSleep ==
    \A i \in 1..Len(mr_log) :
        mr_log[i].ev = "sleep_rl"
        => LET reset == IF mr_log[i].hdr = NoHeader THEN 0 ELSE mr_log[i].hdr
               now == Clock
           IN  /\ mr_log[i].n = (IF reset - now > 0 THEN reset - now ELSE 0) + 10
               /\ mr_log[i].n >= 10
               /\ reset > now => now + mr_log[i].n >= reset + 10

\* C23's case: a rate-limit answer whose reset lies ahead, the sleep, and the
\* retry sent after it
C23_Witness ==
    /\ mr = "await"
    /\ mr_retries > 0
    /\ \E i \in 1..Len(mr_log) :
        /\ mr_log[i].ev = "sleep_rl"
        /\ mr_log[i].hdr > Clock
        /\ mr_log[i].n > 10

\* the response the step that ends the wait of _make_request has received
Received(log) ==
    IF log[Len(log)].ev = "sleep_rl" THEN log[Len(log) - 1] ELSE log[Len(log)]

\* C24: the step in which a response arrives, whatever its status, leaves the
\* remaining-budget counter at the X-RateLimit-Remaining of that response, at
\* 5000 when the response has no such header; no other step changes the
\* counter, the step to the next repository of the batch included.
C24_BudgetTracksLastResponse ==
    [][IF mr = "await" /\ mr' # "await"
       THEN /\ Received(mr_log').ev \in {"resp", "resp_rl"}
            /\ rate_limit_remaining' = IF Received(mr_log').hdr = NoHeader THEN 5000
                                       ELSE Received(mr_log').hdr
       ELSE rate_limit_remaining' = rate_limit_remaining]_vars

\* C24's case: the last response for the first repository left a budget of 9,
\* and the first request for the second repository is made with it
C24_Witness ==
    /\ idx = 2
    /\ phase = "info"
    /\ mr = "await"
    /\ rate_limit_remaining = 9
    /\ mr_log[1].ev = "enter" /\ mr_log[1].n = 9

Fetches == {"commits", "issues", "releases"}
\* one pass of the loop of the fetch ph
LoopStepOf(ph, items, pg, data) ==
    CASE ph = "commits" -> CommitsLoopStep(items, pg, data)
      [] ph = "issues" -> IssuesLoopStep(items, pg, data)
      [] ph = "releases" -> ReleasesLoopStep(items, pg, data)
RECURSIVE Undisturbed(_, _, _, _, _)
\* the fetch ph against a list whose every page request is answered with the
\* page at once: what it returns and the pages it asks for
Undisturbed(ph, list, items, pg, asked) ==
    LET r == LoopStepOf(ph, items, pg, Json(PageOf(list, pg))) IN
    IF r.brk THEN [acc |-> r.acc, pages |-> Append(asked, pg)]
    ELSE Undisturbed(ph, list, r.acc, r.page, Append(asked, pg))

\* C25: while a request of get_commits, get_issues or get_releases is under
\* way, rate-limit answers and retries included, it asks for the page the loop
\* is on; and when the fetch has returned, the source not having changed and
\* having answered every request with a rate-limit 403 or a 200, it has asked
\* for the pages, and returns the list, of the same fetch against the same
\* source answering every request with a 200 at once.
C25_RetriesTransparent ==
    (pc = "in_repo" /\ phase \in Fetches)
    => /\ fn = "called" => mr_params.page = page
       /\ (fn = "returned" /\ fetch_clean)
          => LET plain == Undisturbed(phase, RawList(phase), <<>>, 1, <<>>) IN
              /\ acc = plain.acc
              /\ fetch_pages = plain.pages

\* C25's case: get_releases returned two pages of releases, having been
\* answered with a rate-limit 403 on the way
C25_Witness ==
    /\ pc = "in_repo" /\ phase = "releases" /\ fn = "returned"
    /\ fetch_clean /\ fetch_retried
    /\ fetch_pages = <<1, 2>>
    /\ Len(acc) = PageSize + 1

(* ----------------------------- order of the sub-fetches ---------------- *)
SubFetchOrder == <<"info", "commits", "issues", "releases">>

\* C26: the sub-fetches process_repo_data has entered for a repository are the
\* first ones of repository info, commits, issues endpoint, releases, in this
\* order and each once; requests have gone to the endpoints of these only; a
\* snapshot is built after all four, one pagination of the issues endpoint
\* among them; and after a sub-fetch has failed, no sub-fetch after it is
\* entered and no endpoint after it is asked.
C26_SubFetchOrder ==
    /\ started = SubSeq(SubFetchOrder, 1, Len(started))
    /\ requested \subseteq Elements(started)
    /\ pc = "save"
       => /\ started = SubFetchOrder
          /\ requested = Elements(SubFetchOrder)
          /\ Cardinality({ k \in 1..Len(started) : started[k] = "issues" }) = 1
    /\ (pc = "except" /\ Repo \in sub_failed)
       => /\ mr = "idle"
          /\ started # <<>> /\ Last(started) = phase
          /\ requested = Elements(started)

\* C26's case: the commits fetch failed; the issues endpoint and the releases
\* have not been asked
C26_Witness ==
    /\ pc = "except"
    /\ Repo \in sub_failed
    /\ phase = "commits"
    /\ requested = {"info", "commits"}

(* ----------------------------- the returned list ----------------------- *)
PositionOf(r) == CHOOSE i \in 1..Len(repos) : repos[i] = r

\* C27: the list collect_github_data returns holds the repositories in the
\* order of the input list, none twice; a repository is in it exactly when its
\* snapshot was built and its complete file is on disk; and a repository whose
\* fetch succeeded and whose save failed is not in it.
C27_ReturnedListIsSavedOnes ==
    (mode = "cli" /\ pc = "done")
    => LET out == handed.data IN
        /\ handed.set
        /\ \A i, j \in 1..Len(out) :
              i < j => PositionOf(out[i].repo_name) < PositionOf(out[j].repo_name)
        /\ \A k \in 1..Len(repos) :
              repos[k] \in Names(out)
              <=> (FileOf(repos[k], TRUE) \in files /\ repos[k] \notin sub_failed)
        /\ \A r \in failed : r \notin Names(out)

\* C27's case: of two repositories fetched, the save of one failed after the
\* file had been opened, and the batch returned the other one alone
C27_Witness ==
    /\ mode = "cli" /\ pc = "done"
    /\ sub_failed = {}
    /\ \E f \in files : ~f.complete /\ f.repo_name \in failed
    /\ Len(handed.data) = 1

(* ----------------------------- persistence claims ---------------------- *)
\* the saves, among the first n, that opened the file at path
WritesTo(path, n) == { k \in 1..n : saves[k].filepath = path /\ saves[k].outcome # "open_fails" }
Latest(S) == CHOOSE k \in S : \A m \in S : m <= k

\* C21: load_data_file of the file a completed save_repo_data has written gives
\* a snapshot equal to the one saved, field for field.
C21_SnapshotRoundTrip ==
    (loaded.set /\ saves[Latest(WritesTo(loaded.path, loaded.after))].outcome = "saved")
    => /\ loaded.out.is = "val"
       /\ loaded.out.v = saves[Latest(WritesTo(loaded.path, loaded.after))].repo_data

\* C21's case: a snapshot with a commit without a date, an issue with labels
\* and a release whose name is null has been saved and loaded
C21_Witness ==
    /\ loaded.set
    /\ loaded.out.is = "val"
    /\ Len(loaded.out.v.commits) = 2
    /\ Len(loaded.out.v.issues[1].labels.v) = 2
    /\ loaded.out.v.releases[2].name = Null

\* C22: every file of the data directory holds the complete text of a snapshot
\* at all times, a failing save included, and no load of a file of the
\* directory fails on a text that stops before its end.
C22_AtomicWrite ==
    /\ \A f \in disk : f.complete
    /\ loaded.set => loaded.out.is = "val"

\* C28: two saves write to the same path only when they are saves of the same
\* repository name.
C28_DistinctReposDistinctFiles ==
    \A i, j \in 1..Len(saves) :
        saves[i].filepath = saves[j].filepath
        => saves[i].repo_data.repo_name = saves[j].repo_data.repo_name

====
